---- MODULE Spec2Model ----
(***************************************************************************)
(* A model of transformation/to_silver/cleaning_template_pandas.py:        *)
(* standardize_column_names and the clean_dataframe pipeline               *)
(* (drop_duplicates, handle_missing_values, fix_data_types,                *)
(* handle_outliers, clean_text_data, remove_sparse_columns,                *)
(* standardize_categories).                                                *)
(*                                                                         *)
(* Representation.                                                         *)
(*  - A str is a sequence of one-character strings.                        *)
(*  - A cell is a record [k, n, s]: k = "nan" (missing: None/NaN/NaT),     *)
(*    k = "num" (a number, n = its value in units of 1/Unit),              *)
(*    k = "str" (a text, s = its characters), k = "ts" (a timestamp: n is  *)
(*    the epoch offset when it was made from a number, s the date text     *)
(*    when it was parsed from a text).                                     *)
(*  - A DataFrame is a record [columns, dtypes, data, nrows], column-major.*)
(*  - DataFrames are objects: heap is the sequence of the objects          *)
(*    allocated so far and a Python variable holds an index into it, so    *)
(*    that df.copy() (a new object) and df[col] = ... (an update in place) *)
(*    differ as they do in the program.                                    *)
(* Numbers are exact multiples of 1/Unit; the inputs drawn are small       *)
(* integers, for which the float64 arithmetic of median, quantile and the  *)
(* IQR bounds is exact as well.                                            *)
(*                                                                         *)
(* Specifications.                                                         *)
(*  - Spec: one call of clean_dataframe, one action per step.              *)
(*  - SpecNames: standardize_column_names, applied once and twice.         *)
(*  - SpecOutliers: handle_outliers on one numeric column.                 *)
(*  - SpecText: clean_text_data on one text cell.                          *)
(***************************************************************************)
EXTENDS Integers, Sequences, FiniteSets, TLC

VARIABLES heap, df, df_clean, original, pc

vars == <<heap, df, df_clean, original, pc>>

(***************************************************************************)
(* Characters (ASCII order, as Python compares str).                       *)
(***************************************************************************)
Uppers == <<"A","B","C","D","E","F","G","H","I","J","K","L","M",
            "N","O","P","Q","R","S","T","U","V","W","X","Y","Z">>

Lowers == <<"a","b","c","d","e","f","g","h","i","j","k","l","m",
            "n","o","p","q","r","s","t","u","v","w","x","y","z">>

Digits == <<"0","1","2","3","4","5","6","7","8","9">>

Ascii == <<" ", "!", "-">> \o Digits \o Uppers \o <<"_">> \o Lowers

Range(s) == {s[i] : i \in DOMAIN s}

IndexOf(s, c) == CHOOSE i \in DOMAIN s : s[i] = c

Whitespace == {" "}

\* str.lower(), one character
lower_char(c) == IF c \in Range(Uppers) THEN Lowers[IndexOf(Uppers, c)] ELSE c

\* str.lower()
lower(s) == [i \in DOMAIN s |-> lower_char(s[i])]

\* str.strip(chars)
RECURSIVE lstrip(_, _)
lstrip(s, chars) ==
    IF s # <<>> /\ Head(s) \in chars THEN lstrip(Tail(s), chars) ELSE s

RECURSIVE rstrip(_, _)
rstrip(s, chars) ==
    IF s # <<>> /\ s[Len(s)] \in chars
    THEN rstrip(SubSeq(s, 1, Len(s) - 1), chars) ELSE s

strip(s, chars) == rstrip(lstrip(s, chars), chars)

\* str(n) for n >= 0
RECURSIVE str_int(_)
str_int(n) ==
    IF n < 10 THEN <<Digits[n + 1]>>
    ELSE str_int(n \div 10) \o <<Digits[(n % 10) + 1]>>

(***************************************************************************)
(* standardize_column_names                                                *)
(***************************************************************************)
\* re.sub(r'[^a-z0-9]', '_', col)
sub_non_alnum(s) ==
    [i \in DOMAIN s |->
        IF s[i] \in Range(Lowers) \cup Range(Digits) THEN s[i] ELSE "_"]

\* re.sub(r'_+', '_', col)
RECURSIVE sub_underscores(_)
sub_underscores(s) ==
    IF Len(s) < 2 THEN s
    ELSE IF s[1] = "_" /\ s[2] = "_" THEN sub_underscores(Tail(s))
    ELSE <<s[1]>> \o sub_underscores(Tail(s))

clean_column_name(col) ==
    sub_underscores(strip(sub_non_alnum(lower(col)), {"_"}))

\* The loop over enumerate(new_columns): seen maps a cleaned name to its
\* counter; out is new_columns, element i rewritten when col was seen.
RECURSIVE dedup_loop(_, _, _)
dedup_loop(new_columns, i, seen) ==
    IF i > Len(new_columns) THEN new_columns
    ELSE LET col == new_columns[i] IN
         IF col \in DOMAIN seen
         THEN dedup_loop([new_columns EXCEPT ![i] = col \o <<"_">> \o str_int(seen[col])],
                         i + 1, [seen EXCEPT ![col] = @ + 1])
         ELSE dedup_loop(new_columns, i + 1, (col :> 1) @@ seen)

\* An empty dict
EmptyDict == [x \in {} |-> 0]

\* A column label that is not a str (the integer label 0 that pandas gives
\* an unnamed column): col.lower() raises AttributeError on it.
IntLabel == <<"0:int">>

is_str(col) == col # IntLabel

new_column_names(columns) ==
    dedup_loop([i \in DOMAIN columns |-> clean_column_name(columns[i])], 1, EmptyDict)

\* A variant of copy that returns the same object (df_clean = df)
copy_alias(h, r) == [heap |-> h, ref |-> r]

\* DataFrame.copy(): a new object with the same contents.
copy(h, r) == [heap |-> Append(h, h[r]), ref |-> Len(h) + 1]

\* standardize_column_names(df): [heap, ref, raised]. The list comprehension
\* raises before anything is assigned when a label is not a str.
standardize_column_names(h, r) ==
    LET c == copy(h, r) IN
    IF \E i \in DOMAIN h[r].columns : ~is_str(h[r].columns[i])
    THEN [heap |-> c.heap, ref |-> r, raised |-> TRUE]
    ELSE [heap |-> [c.heap EXCEPT ![c.ref].columns = new_column_names(@)],
          ref |-> c.ref, raised |-> FALSE]

(***************************************************************************)
(* Cells and tables                                                        *)
(***************************************************************************)
\* Numbers are kept in units of 1/16: the median halves, the quartiles
\* quarter and the 1.5 multiplier halves again (2 * 4 * 2).
Unit == 2 * 4 * 2

NaN == [k |-> "nan", n |-> 0, s |-> <<>>]

Num(v) == [k |-> "num", n |-> v, s |-> <<>>]

Str(t) == [k |-> "str", n |-> 0, s |-> t]

isnull(c) == c.k = "nan"

DataFrame(columns, dtypes, data, nrows) ==
    [columns |-> columns, dtypes |-> dtypes, data |-> data, nrows |-> nrows]

\* Sequences over S with length lo..hi
SeqsOf(S, lo, hi) == UNION {[1..n -> S] : n \in lo..hi}

(***************************************************************************)
(* Helpers over columns                                                    *)
(***************************************************************************)
numeric_dtypes == {"int64", "float64"}

\* df.select_dtypes(include=...).columns, as positions
select_dtypes(t, include) == {i \in DOMAIN t.dtypes : t.dtypes[i] \in include}

\* The non-missing cells of a column, in order
RECURSIVE dropna(_)
dropna(cells) ==
    IF cells = <<>> THEN <<>>
    ELSE IF isnull(Head(cells)) THEN dropna(Tail(cells))
    ELSE <<Head(cells)>> \o dropna(Tail(cells))

\* Series.isnull().sum()
null_count(cells) == Cardinality({i \in DOMAIN cells : isnull(cells[i])})

\* Insertion of x into a sequence of numbers sorted ascending
RECURSIVE insert_sorted(_, _)
insert_sorted(x, s) ==
    IF s = <<>> THEN <<x>>
    ELSE IF x <= Head(s) THEN <<x>> \o s
    ELSE <<Head(s)>> \o insert_sorted(x, Tail(s))

RECURSIVE sort_values(_)
sort_values(s) ==
    IF s = <<>> THEN <<>> ELSE insert_sorted(Head(s), sort_values(Tail(s)))

\* The numbers of the non-missing cells, sorted
sorted_numbers(cells) ==
    LET d == dropna(cells) IN sort_values([i \in DOMAIN d |-> d[i].n])

\* str < str, as Python compares (by code point, a prefix first)
RECURSIVE str_less(_, _)
str_less(a, b) ==
    IF b = <<>> THEN FALSE
    ELSE IF a = <<>> THEN TRUE
    ELSE IF Head(a) = Head(b) THEN str_less(Tail(a), Tail(b))
    ELSE IndexOf(Ascii, Head(a)) < IndexOf(Ascii, Head(b))

\* The positions 1..n that are in keep, ascending
RECURSIVE positions(_, _, _)
positions(n, keep, i) ==
    IF i > n THEN <<>>
    ELSE (IF i \in keep THEN <<i>> ELSE <<>>) \o positions(n, keep, i + 1)

\* Series.value_counts()[v]
value_count(cells, v) == Cardinality({i \in DOMAIN cells : cells[i] = v})

(***************************************************************************)
(* 1. drop_duplicates                                                      *)
(***************************************************************************)
row(t, i) == [c \in DOMAIN t.data |-> t.data[c][i]]

\* The positions of the rows kept: the first occurrence of each row
\* (missing equals missing when rows are compared).
kept_rows(t) ==
    {i \in 1..t.nrows : \A j \in 1..(i - 1) : row(t, j) # row(t, i)}

\* The cells of a column at the positions of keep, in order
RECURSIVE take(_, _, _)
take(cells, keep, i) ==
    IF i > Len(cells) THEN <<>>
    ELSE (IF i \in keep THEN <<cells[i]>> ELSE <<>>) \o take(cells, keep, i + 1)

drop_duplicates(t) ==
    IF t.columns = <<>> THEN t
    ELSE LET keep == kept_rows(t) IN
         [t EXCEPT !.data = [c \in DOMAIN t.data |-> take(t.data[c], keep, 1)],
                   !.nrows = Cardinality(keep)]

(***************************************************************************)
(* 2. handle_missing_values                                                *)
(***************************************************************************)
\* Series.median(): the middle of the non-missing values, NaN when none
median(cells) ==
    LET v == sorted_numbers(cells)
        n == Len(v)
    IN  IF n = 0 THEN NaN
        ELSE IF n % 2 = 1 THEN Num(v[(n + 1) \div 2])
        ELSE Num((v[n \div 2] + v[(n \div 2) + 1]) \div 2)

\* Series.fillna(value); fillna(NaN) changes nothing
fillna(cells, value) ==
    [i \in DOMAIN cells |-> IF isnull(cells[i]) THEN value ELSE cells[i]]

\* Series.mode(): the most frequent non-missing values (sorted ascending)
mode(cells) ==
    LET d == Range(dropna(cells)) IN
    {v \in d : \A w \in d : value_count(cells, w) <= value_count(cells, v)}

\* mode()[0]: the smallest of the modes
mode_first(cells) ==
    CHOOSE v \in mode(cells) : \A w \in mode(cells) : w = v \/ str_less(v.s, w.s)

Unknown == Str(<<"U","n","k","n","o","w","n">>)

fill_numeric(cells) == fillna(cells, median(cells))

fill_categorical(cells) ==
    fillna(cells, IF mode(cells) # {} THEN mode_first(cells) ELSE Unknown)

\* A variant that stores each filled column under a new label instead of
\* overwriting the column (df[col + '_filled'] = ...)
handle_missing_values_new_column(t) ==
    LET num == select_dtypes(t, numeric_dtypes)
        cat == select_dtypes(t, {"object", "category"})
        order == positions(Len(t.columns), num \cup cat, 1)
    IN  [t EXCEPT
           !.columns = @ \o [k \in DOMAIN order |->
                               t.columns[order[k]] \o <<"_","f","i","l","l","e","d">>],
           !.dtypes = @ \o [k \in DOMAIN order |-> t.dtypes[order[k]]],
           !.data = @ \o [k \in DOMAIN order |->
                            IF order[k] \in num THEN fill_numeric(t.data[order[k]])
                            ELSE fill_categorical(t.data[order[k]])]]

handle_missing_values(t) ==
    LET num == select_dtypes(t, numeric_dtypes)
        cat == select_dtypes(t, {"object", "category"})
    IN  [t EXCEPT !.data = [c \in DOMAIN t.data |->
            IF c \in num THEN fill_numeric(t.data[c])
            ELSE IF c \in cat THEN fill_categorical(t.data[c])
            ELSE t.data[c]]]

(***************************************************************************)
(* 3. fix_data_types                                                       *)
(***************************************************************************)
\* A text that pd.to_numeric converts: an unsigned decimal integer
is_numeric_text(s) == s # <<>> /\ \A i \in DOMAIN s : s[i] \in Range(Digits)

RECURSIVE int_of(_)
int_of(s) ==
    IF s = <<>> THEN 0
    ELSE 10 * int_of(SubSeq(s, 1, Len(s) - 1)) + (IndexOf(Digits, s[Len(s)]) - 1)

\* A text that pd.to_datetime parses. The texts drawn are ISO 8601 calendar
\* dates (YYYY-MM-DD) and texts with a letter or punctuation in them, which
\* no date format accepts.
is_date_text(s) ==
    /\ Len(s) = 10
    /\ s[5] = "-" /\ s[8] = "-"
    /\ \A i \in {1, 2, 3, 4, 6, 7, 9, 10} : s[i] \in Range(Digits)
    /\ LET y == int_of(SubSeq(s, 1, 4))
           m == int_of(SubSeq(s, 6, 7))
           d == int_of(SubSeq(s, 9, 10))
           leap == y % 4 = 0 /\ (y % 100 # 0 \/ y % 400 = 0)
           days == IF m = 2 THEN (IF leap THEN 29 ELSE 28)
                   ELSE IF m \in {4, 6, 9, 11} THEN 30 ELSE 31
       IN  y >= 1 /\ m \in 1..12 /\ d \in 1..days

\* pd.to_numeric(series): [ok, dtype, cells]. Every non-missing cell must
\* convert, else ValueError (ok = FALSE). Missing cells make the result float64.
to_numeric(dtype, cells) ==
    IF dtype \in numeric_dtypes THEN [ok |-> TRUE, dtype |-> dtype, cells |-> cells]
    ELSE IF \A i \in DOMAIN cells :
               isnull(cells[i]) \/ (cells[i].k = "str" /\ is_numeric_text(cells[i].s))
    THEN [ok |-> TRUE,
          dtype |-> IF null_count(cells) = 0 THEN "int64" ELSE "float64",
          cells |-> [i \in DOMAIN cells |->
                       IF isnull(cells[i]) THEN NaN
                       ELSE Num(Unit * int_of(cells[i].s))]]
    ELSE [ok |-> FALSE, dtype |-> dtype, cells |-> cells]

Timestamp(n, s) == [k |-> "ts", n |-> n, s |-> s]

\* pd.to_datetime(series): [ok, dtype, cells]. A numeric series always
\* converts (its numbers are read as nanoseconds since the epoch); a text
\* series converts when every non-missing cell parses as a date.
to_datetime(dtype, cells) ==
    IF dtype = "datetime64" THEN [ok |-> TRUE, dtype |-> dtype, cells |-> cells]
    ELSE IF dtype \in numeric_dtypes
    THEN [ok |-> TRUE, dtype |-> "datetime64",
          cells |-> [i \in DOMAIN cells |->
                       IF isnull(cells[i]) THEN NaN
                       ELSE Timestamp(cells[i].n, <<>>)]]
    ELSE IF \A i \in DOMAIN cells :
               isnull(cells[i]) \/ (cells[i].k = "str" /\ is_date_text(cells[i].s))
    THEN [ok |-> TRUE, dtype |-> "datetime64",
          cells |-> [i \in DOMAIN cells |->
                       IF isnull(cells[i]) THEN NaN
                       ELSE Timestamp(0, cells[i].s)]]
    ELSE [ok |-> FALSE, dtype |-> dtype, cells |-> cells]

\* The body of the loop for one object column: the first try block, then
\* the second try block on whatever df[col] now is.
fix_column(dtype, cells) ==
    LET a == to_numeric(dtype, cells)
        b == to_datetime(a.dtype, a.cells)
    IN  [dtype |-> b.dtype, cells |-> b.cells]

fix_data_types(t) ==
    [t EXCEPT
       !.dtypes = [c \in DOMAIN t.dtypes |->
                     IF t.dtypes[c] = "object"
                     THEN fix_column(t.dtypes[c], t.data[c]).dtype ELSE t.dtypes[c]],
       !.data = [c \in DOMAIN t.data |->
                     IF t.dtypes[c] = "object"
                     THEN fix_column(t.dtypes[c], t.data[c]).cells ELSE t.data[c]]]

(***************************************************************************)
(* 4. handle_outliers                                                      *)
(***************************************************************************)
\* Series.quantile(k/4), linear interpolation over the sorted non-missing
\* values; NaN when there are none.
quantile(cells, k) ==
    LET v == sorted_numbers(cells)
        n == Len(v)
        lo == ((n - 1) * k) \div 4
        r == ((n - 1) * k) % 4
    IN  IF n = 0 THEN NaN
        ELSE IF r = 0 THEN Num(v[lo + 1])
        ELSE Num(((4 - r) * v[lo + 1] + r * v[lo + 2]) \div 4)

\* Q1 - 1.5 * IQR
lower_bound(cells) ==
    LET Q1 == quantile(cells, 1)
        Q3 == quantile(cells, 3)
    IN  IF isnull(Q1) THEN NaN ELSE Num(Q1.n - (3 * (Q3.n - Q1.n)) \div 2)

\* Q3 + 1.5 * IQR
upper_bound(cells) ==
    LET Q1 == quantile(cells, 1)
        Q3 == quantile(cells, 3)
    IN  IF isnull(Q1) THEN NaN ELSE Num(Q3.n + (3 * (Q3.n - Q1.n)) \div 2)

\* A variant that caps only the upper side
clip_upper_only(cells, lo_b, up_b) ==
    [i \in DOMAIN cells |->
        IF isnull(cells[i]) THEN cells[i]
        ELSE IF ~isnull(up_b) /\ cells[i].n > up_b.n THEN up_b
        ELSE cells[i]]

\* Series.clip(lower, upper): a NaN bound is no bound, a missing cell stays
clip(cells, lo_b, up_b) ==
    [i \in DOMAIN cells |->
        IF isnull(cells[i]) THEN cells[i]
        ELSE IF ~isnull(lo_b) /\ cells[i].n < lo_b.n THEN lo_b
        ELSE IF ~isnull(up_b) /\ cells[i].n > up_b.n THEN up_b
        ELSE cells[i]]

cap_column(cells) == clip(cells, lower_bound(cells), upper_bound(cells))

\* The dtype of the capped column: clip with float bounds makes an int64
\* column float64 when a value was replaced.
capped_dtype(dtype, cells) ==
    IF cap_column(cells) = cells THEN dtype ELSE "float64"

handle_outliers(t) ==
    LET num == select_dtypes(t, numeric_dtypes) IN
    [t EXCEPT
       !.dtypes = [c \in DOMAIN t.dtypes |->
                     IF c \in num THEN capped_dtype(t.dtypes[c], t.data[c])
                     ELSE t.dtypes[c]],
       !.data = [c \in DOMAIN t.data |->
                     IF c \in num THEN cap_column(t.data[c]) ELSE t.data[c]]]

(***************************************************************************)
(* 5. clean_text_data                                                      *)
(***************************************************************************)
\* astype(str) of one cell of an object column: a text is itself, a
\* missing cell (NaN) becomes the text "nan"
astype_str(c) == IF c.k = "str" THEN c.s ELSE <<"n","a","n">>

\* \w of the regular expression: a letter, a digit or the underscore
is_word_char(c) == c \in Range(Lowers) \cup Range(Uppers) \cup Range(Digits) \cup {"_"}

\* A variant of the substitution that removes nothing
sub_non_word_identity(s) == s

\* re.sub(r'[^\w\s]', '', x)
RECURSIVE sub_non_word(_)
sub_non_word(s) ==
    IF s = <<>> THEN <<>>
    ELSE (IF is_word_char(Head(s)) \/ Head(s) \in Whitespace
          THEN <<Head(s)>> ELSE <<>>) \o sub_non_word(Tail(s))

clean_text_cell(c) == Str(sub_non_word(lower(strip(astype_str(c), Whitespace))))

clean_text_data(t) ==
    LET text_cols == select_dtypes(t, {"object"}) IN
    [t EXCEPT !.data = [c \in DOMAIN t.data |->
        IF c \in text_cols
        THEN [i \in DOMAIN t.data[c] |-> clean_text_cell(t.data[c][i])]
        ELSE t.data[c]]]

(***************************************************************************)
(* 6. remove_sparse_columns                                                *)
(***************************************************************************)
\* missing_percentages > threshold (0.7), as 10 * missing > 7 * len(df);
\* with no rows the percentage is NaN and compares False.
is_sparse(t, c) == t.nrows > 0 /\ 10 * null_count(t.data[c]) > 7 * t.nrows

remove_sparse_columns(t) ==
    LET keep == positions(Len(t.columns),
                          {c \in DOMAIN t.columns : ~is_sparse(t, c)}, 1)
    IN  [t EXCEPT !.columns = [k \in DOMAIN keep |-> t.columns[keep[k]]],
                  !.dtypes = [k \in DOMAIN keep |-> t.dtypes[keep[k]]],
                  !.data = [k \in DOMAIN keep |-> t.data[keep[k]]]]

(***************************************************************************)
(* 7. standardize_categories                                               *)
(***************************************************************************)
Other == Str(<<"O","t","h","e","r">>)

\* value_counts / len(df) < 0.01, as 100 * count < len(df)
is_rare(t, cells, v) == ~isnull(v) /\ 100 * value_count(cells, v) < t.nrows

standardize_categories(t) ==
    LET cat == select_dtypes(t, {"object", "category"}) IN
    [t EXCEPT !.data = [c \in DOMAIN t.data |->
        IF c \in cat
        THEN [i \in DOMAIN t.data[c] |->
                IF is_rare(t, t.data[c], t.data[c][i]) THEN Other ELSE t.data[c][i]]
        ELSE t.data[c]]]

(***************************************************************************)
(* Spec: one call of clean_dataframe(df), step by step.                    *)
(***************************************************************************)
MaxRows == 4

T(text) == Str(text)

\* The tables a caller passes: a schema gives each column its label, its
\* dtype and the cells its rows are drawn from.
Schemas ==
    { << [label |-> <<"A"," ","C","o","l">>, dtype |-> "float64",
          pool |-> {NaN, Num(Unit * 1), Num(Unit * 100)}],
         [label |-> <<"C","a","t"," ">>, dtype |-> "object",
          pool |-> {NaN, T(<<"X","!">>)}] >>,
      << [label |-> <<"i","d">>, dtype |-> "int64",
          pool |-> {Num(Unit * 1), Num(Unit * 2)}],
         [label |-> <<"x">>, dtype |-> "float64",
          pool |-> {NaN, Num(Unit * 1)}] >>,
      << [label |-> <<"Q","t","y">>, dtype |-> "object",
          pool |-> {NaN, T(<<"1">>), T(<<"2","0">>)}] >>,
      << [label |-> <<"D","a","y">>, dtype |-> "object",
          pool |-> {NaN, T(<<"2","0","2","0","-","0","1","-","0","1">>),
                    T(<<"X","!">>)}] >>,
      << [label |-> <<"N","a","m","e">>, dtype |-> "int64",
          pool |-> {Num(Unit * 1), Num(Unit * 2)}],
         [label |-> <<"n","a","m","e">>, dtype |-> "object",
          pool |-> {NaN, T(<<"B">>)}] >>,
      << [label |-> IntLabel, dtype |-> "int64",
          pool |-> {Num(Unit * 1), Num(Unit * 2)}] >> }

\* The rows a schema allows: one cell of each column's pool
RECURSIVE RowsOf(_)
RowsOf(schema) ==
    IF schema = <<>> THEN {<<>>}
    ELSE {<<cell>> \o rest : cell \in Head(schema).pool, rest \in RowsOf(Tail(schema))}

\* The table of a schema with the given rows
TableOf(schema, rows) ==
    DataFrame([c \in DOMAIN schema |-> schema[c].label],
              [c \in DOMAIN schema |-> schema[c].dtype],
              [c \in DOMAIN schema |-> [i \in DOMAIN rows |-> rows[i][c]]],
              Len(rows))

Init ==
    /\ \E schema \in Schemas : \E n \in 0..MaxRows :
       \E rows \in [1..n -> RowsOf(schema)] :
          /\ heap = <<TableOf(schema, rows)>>
          /\ original = TableOf(schema, rows)
    /\ df = 1
    /\ df_clean = 0
    /\ pc = "copy"

\* df_clean = df.copy()
Copy ==
    /\ pc = "copy"
    /\ LET c == copy(heap, df) IN
          /\ heap' = c.heap
          /\ df_clean' = c.ref
    /\ pc' = "standardize_column_names"
    /\ UNCHANGED <<df, original>>

\* df_clean = standardize_column_names(df_clean)
StandardizeColumnNames ==
    /\ pc = "standardize_column_names"
    /\ LET res == standardize_column_names(heap, df_clean) IN
          /\ ~res.raised
          /\ heap' = res.heap
          /\ df_clean' = res.ref
    /\ pc' = "drop_duplicates"
    /\ UNCHANGED <<df, original>>

\* standardize_column_names raises (a label without .lower()); the
\* orchestrator catches nothing and the call ends.
StandardizeColumnNamesRaises ==
    /\ pc = "standardize_column_names"
    /\ LET res == standardize_column_names(heap, df_clean) IN
          /\ res.raised
          /\ heap' = res.heap
    /\ pc' = "raised"
    /\ UNCHANGED <<df, df_clean, original>>

\* df_clean = df_clean.drop_duplicates(): a new object
DropDuplicates ==
    /\ pc = "drop_duplicates"
    /\ heap' = Append(heap, drop_duplicates(heap[df_clean]))
    /\ df_clean' = Len(heap) + 1
    /\ pc' = "handle_missing_values"
    /\ UNCHANGED <<df, original>>

\* df_clean = handle_missing_values(df_clean): df[col] = ... in place
HandleMissingValues ==
    /\ pc = "handle_missing_values"
    /\ heap' = [heap EXCEPT ![df_clean] = handle_missing_values(@)]
    /\ pc' = "fix_data_types"
    /\ UNCHANGED <<df, df_clean, original>>

\* df_clean = fix_data_types(df_clean): in place
FixDataTypes ==
    /\ pc = "fix_data_types"
    /\ heap' = [heap EXCEPT ![df_clean] = fix_data_types(@)]
    /\ pc' = "handle_outliers"
    /\ UNCHANGED <<df, df_clean, original>>

\* df_clean = handle_outliers(df_clean): in place
HandleOutliers ==
    /\ pc = "handle_outliers"
    /\ heap' = [heap EXCEPT ![df_clean] = handle_outliers(@)]
    /\ pc' = "clean_text_data"
    /\ UNCHANGED <<df, df_clean, original>>

\* df_clean = clean_text_data(df_clean): in place
CleanTextData ==
    /\ pc = "clean_text_data"
    /\ heap' = [heap EXCEPT ![df_clean] = clean_text_data(@)]
    /\ pc' = "remove_sparse_columns"
    /\ UNCHANGED <<df, df_clean, original>>

\* df_clean = remove_sparse_columns(df_clean): df.drop returns a new object
RemoveSparseColumns ==
    /\ pc = "remove_sparse_columns"
    /\ heap' = Append(heap, remove_sparse_columns(heap[df_clean]))
    /\ df_clean' = Len(heap) + 1
    /\ pc' = "standardize_categories"
    /\ UNCHANGED <<df, original>>

\* df_clean = standardize_categories(df_clean): in place; return df_clean
StandardizeCategories ==
    /\ pc = "standardize_categories"
    /\ heap' = [heap EXCEPT ![df_clean] = standardize_categories(@)]
    /\ pc' = "done"
    /\ UNCHANGED <<df, df_clean, original>>

Next ==
    \/ Copy
    \/ StandardizeColumnNames
    \/ StandardizeColumnNamesRaises
    \/ DropDuplicates
    \/ HandleMissingValues
    \/ FixDataTypes
    \/ HandleOutliers
    \/ CleanTextData
    \/ RemoveSparseColumns
    \/ StandardizeCategories

Spec == Init /\ [][Next]_vars

\* The shape of the state: every table has one dtype and one cell sequence
\* per label, and nrows cells per column.
TypeOK ==
    /\ pc \in {"copy", "standardize_column_names", "drop_duplicates",
               "handle_missing_values", "fix_data_types", "handle_outliers",
               "clean_text_data", "remove_sparse_columns",
               "standardize_categories", "done", "raised"}
    /\ \A r \in DOMAIN heap :
          /\ Len(heap[r].columns) = Len(heap[r].data)
          /\ Len(heap[r].dtypes) = Len(heap[r].data)
          /\ \A c \in DOMAIN heap[r].data : Len(heap[r].data[c]) = heap[r].nrows

(***************************************************************************)
(* Claims about clean_dataframe (Spec)                                     *)
(***************************************************************************)
\* The label standardize_column_names gives the caller's column c
clean_label(c) == new_column_names(original.columns)[c]

all_missing(cells) == cells # <<>> /\ \A i \in DOMAIN cells : isnull(cells[i])

\* C3: no step of clean_dataframe adds a row or a column to the working
\* table, and at every step, as in the table returned, it has no more rows
\* and no more columns than the input.
C3_RowsAndColumnsNeverIncrease ==
    [][df_clean' # 0 =>
          LET old == IF df_clean = 0 THEN original ELSE heap[df_clean]
              new == heap'[df_clean']
          IN  /\ new.nrows <= old.nrows
              /\ Len(new.columns) <= Len(old.columns)
              /\ new.nrows <= original.nrows
              /\ Len(new.columns) <= Len(original.columns)
              /\ Len(new.data) = Len(new.columns)
              /\ \A c \in DOMAIN new.data : Len(new.data[c]) = new.nrows]_vars

\* C3 witness: a call returned a table with fewer rows (duplicates dropped)
\* and fewer columns (a sparse column pruned) than its input.
C3_Witness ==
    /\ pc = "done"
    /\ heap[df_clean].nrows < original.nrows
    /\ heap[df_clean].nrows > 0
    /\ Len(heap[df_clean].columns) < Len(original.columns)

\* C4 (as claimed): every column whose fraction of missing cells in the
\* input exceeds 0.7 is absent from the table clean_dataframe returns.
C4_SparseInputColumnAbsent ==
    pc = "done" =>
        \A c \in DOMAIN original.columns :
            (original.nrows > 0 /\ 10 * null_count(original.data[c]) > 7 * original.nrows)
                => clean_label(c) \notin Range(heap[df_clean].columns)

\* C5: clean_dataframe never changes the caller's table: at every step,
\* after a return and after a step raised, the object the caller passed has
\* the labels, dtypes and cells it had before the call.
C5_CallerTableUnchanged == heap[df] = original

\* C5 witness: the call returned and the steps did change the working copy
\* (labels and cells), which is another object than the caller's.
C5_Witness ==
    /\ pc = "done"
    /\ df_clean # df
    /\ heap[df_clean].columns # original.columns
    /\ heap[df_clean].data # original.data

\* C8 (as claimed): in fix_data_types a text column whose every cell
\* converts to a number ends the step numeric, and a column that neither
\* reinterpretation accepts is left as text with its cells unchanged.
C8_NumericTextEndsNumeric ==
    [][(pc = "fix_data_types" /\ pc' = "handle_outliers") =>
          \A c \in DOMAIN heap[df_clean].dtypes :
              heap[df_clean].dtypes[c] = "object" =>
                  LET cells == heap[df_clean].data[c]
                      num == to_numeric("object", cells).ok
                      ts == to_datetime("object", cells).ok
                  IN  /\ (num /\ cells # <<>>) =>
                             heap'[df_clean].dtypes[c] \in numeric_dtypes
                      /\ (~num /\ ~ts) =>
                             /\ heap'[df_clean].dtypes[c] = "object"
                             /\ heap'[df_clean].data[c] = cells]_vars

\* C9 (as claimed): handle_missing_values never completes normally on a
\* numeric column whose cells are all missing: the call ends in the raised
\* condition instead of going on with the column still all missing.
C9_AllMissingNumericSurfaced ==
    pc = "fix_data_types" =>
        \A c \in select_dtypes(heap[df_clean], numeric_dtypes) :
            ~all_missing(heap[df_clean].data[c])

(***************************************************************************)
(* SpecNames: a caller applies standardize_column_names to a table, and    *)
(* again to the table it returned.                                         *)
(***************************************************************************)
MaxNameLen == 3

MaxNames == 3

NameChars == {"A", "!", "1"}

RawNames == SeqsOf(NameChars, 1, MaxNameLen)

\* A table with the given labels and no rows
NameTable(names) ==
    DataFrame(names, [i \in DOMAIN names |-> "object"],
              [i \in DOMAIN names |-> <<>>], 0)

InitNames ==
    /\ \E names \in SeqsOf(RawNames, 1, MaxNames) :
          /\ heap = <<NameTable(names)>>
          /\ original = NameTable(names)
    /\ df = 1
    /\ df_clean = 0
    /\ pc = "names_raw"

\* df = standardize_column_names(df), the first and the second time
Standardize ==
    /\ pc \in {"names_raw", "names_once"}
    /\ LET res == standardize_column_names(heap, df) IN
          /\ heap' = res.heap
          /\ df' = res.ref
    /\ pc' = IF pc = "names_raw" THEN "names_once" ELSE "names_twice"
    /\ UNCHANGED <<df_clean, original>>

NextNames == Standardize

SpecNames == InitNames /\ [][NextNames]_vars

\* C1 (as claimed): the names standardize_column_names returns are pairwise
\* distinct, for every list of raw names.
C1_NamesPairwiseDistinct ==
    pc = "names_once" =>
        \A i, j \in DOMAIN heap[df].columns :
            heap[df].columns[i] = heap[df].columns[j] => i = j

\* The table the previous call of standardize_column_names was given
previous == heap[Len(heap) - 1]

\* C2 (as claimed): standardize_column_names applied to its own output
\* returns the same list of names as one application.
C2_NormalizationIdempotent ==
    pc = "names_twice" => heap[df].columns = previous.columns

well_formed_name(s) ==
    /\ s # <<>>
    /\ \A i \in DOMAIN s : s[i] \in Range(Lowers) \cup Range(Digits) \cup {"_"}
    /\ s[1] # "_"
    /\ s[Len(s)] # "_"
    /\ \A i \in 1..(Len(s) - 1) : ~(s[i] = "_" /\ s[i + 1] = "_")

\* C7 (as claimed): every name standardize_column_names returns is
\* non-empty, made of lowercase letters, digits and underscores only, with no
\* leading or trailing underscore and no two consecutive underscores.
C7_NamesWellFormed ==
    pc = "names_once" =>
        \A i \in DOMAIN heap[df].columns : well_formed_name(heap[df].columns[i])

(***************************************************************************)
(* SpecOutliers: handle_outliers applied to a table with one float64       *)
(* column (columns=None: every numeric column).                            *)
(***************************************************************************)
MaxSeries == 5

OutlierValues == {NaN, Num(Unit * 0), Num(Unit * 1), Num(Unit * 3), Num(Unit * 10)}

InitOutliers ==
    /\ \E cells \in SeqsOf(OutlierValues, 0, MaxSeries) :
          /\ heap = <<DataFrame(<<<<"v">>>>, <<"float64">>, <<cells>>, Len(cells))>>
          /\ original = DataFrame(<<<<"v">>>>, <<"float64">>, <<cells>>, Len(cells))
    /\ df = 1
    /\ df_clean = 0
    /\ pc = "outliers_input"

\* df = handle_outliers(df): in place
CapOutliers ==
    /\ pc = "outliers_input"
    /\ heap' = [heap EXCEPT ![df] = handle_outliers(@)]
    /\ pc' = "outliers_capped"
    /\ UNCHANGED <<df, df_clean, original>>

NextOutliers == CapOutliers

SpecOutliers == InitOutliers /\ [][NextOutliers]_vars

\* The column before and after the capping
before == original.data[1]

after == heap[df].data[1]

\* Twice the bounds, from the quartiles of the column before the capping:
\* 2 * (Q1 - 1.5 * IQR) and 2 * (Q3 + 1.5 * IQR)
twice_lower == 2 * quantile(before, 1).n - 3 * (quantile(before, 3).n - quantile(before, 1).n)

twice_upper == 2 * quantile(before, 3).n + 3 * (quantile(before, 3).n - quantile(before, 1).n)

\* C6: after handle_outliers every value of the column lies in
\* [Q1 - 1.5 IQR, Q3 + 1.5 IQR] (the quartiles of the values just before); a
\* value inside the bounds is unchanged, a value outside is exactly the
\* nearest bound, a missing cell stays missing, and no row is added or removed.
C6_CappedWithinIqrBounds ==
    pc = "outliers_capped" =>
        /\ heap[df].nrows = original.nrows
        /\ Len(after) = Len(before)
        /\ \A i \in DOMAIN before :
              IF isnull(before[i]) THEN isnull(after[i])
              ELSE /\ after[i].k = "num"
                   /\ twice_lower <= 2 * after[i].n
                   /\ 2 * after[i].n <= twice_upper
                   /\ (twice_lower <= 2 * before[i].n /\ 2 * before[i].n <= twice_upper)
                         => after[i] = before[i]
                   /\ 2 * before[i].n < twice_lower => 2 * after[i].n = twice_lower
                   /\ 2 * before[i].n > twice_upper => 2 * after[i].n = twice_upper

\* C6 witness: a capped column in which one value was raised to the lower
\* bound, one lowered to the upper bound and one left as it was.
C6_Witness ==
    /\ pc = "outliers_capped"
    /\ \E i, j, k \in DOMAIN before :
          /\ ~isnull(before[i]) /\ 2 * before[i].n < twice_lower /\ after[i] # before[i]
          /\ ~isnull(before[j]) /\ 2 * before[j].n > twice_upper /\ after[j] # before[j]
          /\ ~isnull(before[k]) /\ after[k] = before[k]

(***************************************************************************)
(* SpecText: clean_text_data applied to a table with one object column of  *)
(* one cell.                                                               *)
(***************************************************************************)
MaxTextLen == 4

TextChars == {"A", "b", "1", "_", "!", " "}

TextCells == {NaN} \cup {Str(t) : t \in SeqsOf(TextChars, 0, MaxTextLen)}

InitText ==
    /\ \E cell \in TextCells :
          /\ heap = <<DataFrame(<<<<"t">>>>, <<"object">>, <<<<cell>>>>, 1)>>
          /\ original = DataFrame(<<<<"t">>>>, <<"object">>, <<<<cell>>>>, 1)
    /\ df = 1
    /\ df_clean = 0
    /\ pc = "text_input"

\* df = clean_text_data(df): in place
CleanText ==
    /\ pc = "text_input"
    /\ heap' = [heap EXCEPT ![df] = clean_text_data(@)]
    /\ pc' = "text_cleaned"
    /\ UNCHANGED <<df, df_clean, original>>

NextText == CleanText

SpecText == InitText /\ [][NextText]_vars

\* The string form of the cell before the step, and the cell after it
text_before == astype_str(original.data[1][1])

text_after == heap[df].data[1][1].s

lower_alnum == Range(Lowers) \cup Range(Digits)

\* The characters of s that are in keep, in order
RECURSIVE only(_, _)
only(s, keep) ==
    IF s = <<>> THEN <<>>
    ELSE (IF Head(s) \in keep THEN <<Head(s)>> ELSE <<>>) \o only(Tail(s), keep)

\* The whitespace of s that stands between two other characters
inner_whitespace(s) ==
    {i \in DOMAIN s :
        /\ s[i] \in Whitespace
        /\ \E j \in 1..(i - 1) : s[j] \notin Whitespace
        /\ \E j \in (i + 1)..Len(s) : s[j] \notin Whitespace}

\* C10 (as claimed): after clean_text_data every cell of a text column holds
\* only lowercase-or-caseless alphanumeric characters and whitespace; the
\* underscore and the punctuation are removed.
C10_OnlyAlnumAndWhitespace ==
    pc = "text_cleaned" =>
        \A i \in DOMAIN text_after : text_after[i] \in lower_alnum \cup Whitespace

\* C10 (amended): after clean_text_data every cell of a text column holds
\* only lowercase-or-caseless word characters (letters, digits and the
\* underscore) and whitespace: its word characters are those of the string
\* form before, lowercased and in order, its whitespace is the whitespace
\* that stood between other characters, and everything else is removed.
C10_OnlyWordAndWhitespace ==
    pc = "text_cleaned" =>
        /\ heap[df].data[1][1].k = "str"
        /\ \A i \in DOMAIN text_after :
              text_after[i] \in lower_alnum \cup {"_"} \cup Whitespace
        /\ only(text_after, lower_alnum \cup {"_"})
              = lower(only(text_before, lower_alnum \cup Range(Uppers) \cup {"_"}))
        /\ Len(only(text_after, Whitespace)) = Cardinality(inner_whitespace(text_before))

\* C10 witness: a cleaned cell whose text had an uppercase letter, an
\* underscore, a punctuation mark and whitespace at an end.
C10_Witness ==
    /\ pc = "text_cleaned"
    /\ original.data[1][1].k = "str"
    /\ \E i \in DOMAIN text_before : text_before[i] \in Range(Uppers)
    /\ \E i \in DOMAIN text_before : text_before[i] = "_"
    /\ \E i \in DOMAIN text_before : text_before[i] = "!"
    /\ text_before[1] \in Whitespace
    /\ text_after # text_before

====
